---- MODULE Spec2Model ----
(***************************************************************************)
(* Model of the debounced persistence layer of infinite-canvas:            *)
(*   - debounce(fn, ms) with flush           (examples/main.ts 14-25)      *)
(*   - PersistenceManager                    (unnamed/part_000)            *)
(*   - IndexedDbStorageService               (storage/IndexedDb...ts)      *)
(* Time is explicit.  Timers are absolute deadlines in milliseconds; a     *)
(* timer callback runs at its deadline, before time moves on and before    *)
(* any call the application makes at that instant.                         *)
(***************************************************************************)
EXTENDS Integers, Sequences, FiniteSets, TLC

(* ---------------- bounds of the model ---------------- *)
\* time moves in steps of the smallest delay while now < MaxTime, and from
\* one timer deadline to the next at any time
MaxTime == 100
\* calls the application makes on the manager
MaxCalls == 4
\* number of ids generateId hands out
MaxNew == 1

(* ---------------- program constants ---------------- *)
\* debounce(() => this.save(), 1000)
DEBOUNCE_MS == 1000
\* setTimeout(() => { this.isLoading = false }, 100)
SETTLE_MS == 100
\* await new Promise(resolve => setTimeout(resolve, 50))
GRACE_MS == 50

\* canvasId: string | null, currentSnapshot: ... | null
Null == "null"
\* canvasName default
UNTITLED == "Untitled Canvas"
\* optional parameter name?: string left out
Undefined == "undefined"

\* ids crypto.randomUUID() returns, in the order it returns them
UuidPool == <<"u1", "u2", "u3">>
\* the id of a canvas stored before the manager was constructed
StoredId == "a"
\* names callers pass
Names == {"N"}
\* editor snapshots ({appState, nodes}) callers pass
Snapshots == {"A", "B"}

VARIABLES
  now,              \* Date.now(), and the clock the timers run on
  canvasId,         \* PersistenceManager.canvasId
  canvasName,       \* PersistenceManager.canvasName
  createdAt,        \* PersistenceManager.createdAt
  isLoading,        \* PersistenceManager.isLoading
  onSaveError,      \* TRUE when an error handler is registered
  currentSnapshot,  \* PersistenceManager.currentSnapshot
  timeoutId,        \* debounce: <<>> or <<deadline>> of the pending timer
  settleTimers,     \* deadlines of the pending "isLoading = false" timers
  graceTimers,      \* [at, deadline] of the forceSave calls not yet returned
  txns,             \* IndexedDB transactions in flight, in creation order
  store,            \* the committed records of the object store
  committed,        \* history: the record of the last committed write per id
  generated,        \* number of ids generateId has returned
  calls,            \* number of calls the application has made
  burst,            \* history: the current sequence of debouncedSave() calls
                    \* and where currentSnapshot came from
  obs               \* history: what the last step did, as its caller sees it

vars == <<now, canvasId, canvasName, createdAt, isLoading, onSaveError,
          currentSnapshot, timeoutId, settleTimers, graceTimers, txns, store,
          committed, generated, calls, burst, obs>>

mgr == <<canvasId, canvasName, createdAt, isLoading, onSaveError, currentSnapshot>>

(* ---------------- data ---------------- *)
\* CanvasData
CanvasData(id, name, content, created, updated) ==
  [id |-> id, name |-> name, content |-> content,
   createdAt |-> created, updatedAt |-> updated]

NoData == CanvasData(Null, Null, Null, 0, 0)

\* a readwrite transaction with one put request
PutTxn(rec) == [kind |-> "put", id |-> rec.id, rec |-> rec, st |-> "request"]
\* a readonly transaction with one get request
GetTxn(id) == [kind |-> "get", id |-> id, rec |-> NoData, st |-> "request"]

\* request.result || null of store.get(id)
Lookup(id) ==
  IF \E r \in store : r.id = id
    THEN CHOOSE r \in store : r.id = id
    ELSE NoData

\* mutant: a write changes the fields of the stored record one by one and
\* keeps its createdAt
Put_keepsCreatedAt(rec) ==
  {r \in store : r.id # rec.id}
    \cup {[rec EXCEPT !.createdAt = r.createdAt] : r \in {q \in store : q.id = rec.id}}
    \cup (IF \E r \in store : r.id = rec.id THEN {} ELSE {rec})

\* mutant: a record is stored only under a key that is free
Put_insertOnly(rec) ==
  IF \E r \in store : r.id = rec.id THEN store ELSE store \cup {rec}

\* store.put(canvas), keyPath 'id'
Put(rec) == {r \in store : r.id # rec.id} \cup {rec}

\* ids the application knows
Ids == {StoredId} \cup {UuidPool[i] : i \in 1..generated}

RemoveAt(s, i) == SubSeq(s, 1, i - 1) \o SubSeq(s, i + 1, Len(s))

Gets == {i \in 1..Len(txns) : txns[i].kind = "get"}

(* ---------------- timers ---------------- *)
Pending(timers) == timers # <<>>
Due(timers) == timers # <<>> /\ Head(timers) <= now
GraceDue == graceTimers # <<>> /\ Head(graceTimers).deadline <= now

Deadlines ==
  {timeoutId[i] : i \in 1..Len(timeoutId)}
    \cup {settleTimers[i] : i \in 1..Len(settleTimers)}
    \cup {graceTimers[i].deadline : i \in 1..Len(graceTimers)}

AnyDue == \E d \in Deadlines : d <= now

NextDeadline == CHOOSE d \in Deadlines : \A e \in Deadlines : d <= e

(* ---------------- history ---------------- *)
\* op: the step; effect: how often the debounced fn was invoked in it;
\* result: what the call returned or threw; handled: the error handler ran;
\* waited: time between a forceSave call and its return
Observe(op, effect, result, handled, waited) ==
  [op |-> op, effect |-> effect, result |-> result, handled |-> handled,
   waited |-> waited]

NoBurst ==
  [n |-> 0, first |-> 0, last |-> 0, fired |-> 0, at |-> 0, flushed |-> FALSE,
   clean |-> FALSE, snap |-> Null, writes |-> <<>>,
   owner |-> Null, accepted |-> {}, fate |-> "none"]

\* debouncedSave() is called with `snapshot` recorded: the call continues the
\* sequence when the timer of the previous call is still pending.
\* owner: the canvasId at the time currentSnapshot was last assigned;
\* accepted: the ids under which a call was accepted; fate: what became of
\* the snapshot of the last accepted call ("pending": still recorded under
\* its id and not yet passed to a write)
Scheduled(snapshot) ==
  LET cont == Pending(timeoutId) IN
  [n |-> IF cont THEN burst.n + 1 ELSE 1,
   first |-> IF cont THEN burst.first ELSE now,
   last |-> now, fired |-> 0, at |-> 0, flushed |-> FALSE,
   clean |-> IF cont THEN burst.clean ELSE TRUE,
   snap |-> snapshot, writes |-> <<>>,
   owner |-> canvasId, accepted |-> burst.accepted \cup {canvasId},
   fate |-> "pending"]

\* the snapshot of the last accepted call is no longer what would be written
Replaced(fate) == IF fate = "pending" THEN "replaced" ELSE fate

\* the records of the puts a step has issued
Issued ==
  [k \in 1..(Len(txns') - Len(txns)) |-> txns'[Len(txns) + k].rec]

\* the write of `rec` has committed
Committed(rec) == {r \in committed : r.id # rec.id} \cup {rec}

\* the step has passed the recorded snapshot to a write
Written(fate) ==
  IF fate = "pending" /\ Issued # <<>> THEN "written" ELSE fate

(* ---------------- debounce ---------------- *)
\* mutant: a pending timer is kept, not restarted (leading-edge timing)
debounced_keepsPending ==
  timeoutId' = IF Pending(timeoutId) THEN timeoutId ELSE <<now + DEBOUNCE_MS>>

\* debounced(): clearTimeout(timeoutId); timeoutId = setTimeout(fn, ms)
debounced == timeoutId' = <<now + DEBOUNCE_MS>>

\* mutant: flush calls fn() without clearing the timer
clearTimeout_missing == timeoutId' = timeoutId

\* the part of flush before fn(): clearTimeout(timeoutId)
clearTimeout == timeoutId' = <<>>

(* ---------------- PersistenceManager ---------------- *)
\* the guard of save()
SaveGuard == canvasId # Null /\ currentSnapshot # Null /\ ~isLoading

\* mutant: save() without the isLoading test
save_ignoresLoading ==
  txns' = IF canvasId # Null /\ currentSnapshot # Null
            THEN Append(txns, PutTxn(CanvasData(canvasId, canvasName,
                                      currentSnapshot, createdAt, now)))
            ELSE txns

\* save(): builds the record and calls storage.saveCanvas, which opens the
\* transaction and issues the put
save ==
  txns' = IF SaveGuard
            THEN Append(txns, PutTxn(CanvasData(canvasId, canvasName,
                                      currentSnapshot, createdAt, now)))
            ELSE txns

\* the manager is constructed after the stored canvas was written (at 0)
Init ==
  /\ now = GRACE_MS
  /\ canvasId = Null
  /\ canvasName = UNTITLED
  /\ createdAt = now
  /\ isLoading = FALSE
  /\ onSaveError = FALSE
  /\ currentSnapshot = Null
  /\ timeoutId = <<>>
  /\ settleTimers = <<>>
  /\ graceTimers = <<>>
  /\ txns = <<>>
  /\ store = {CanvasData(StoredId, "N", "S", 0, 0)}
  /\ committed = store
  /\ generated = 0
  /\ calls = 0
  /\ burst = NoBurst
  /\ obs = Observe("new", 0, "void", FALSE, 0)

CanCall == calls < MaxCalls /\ ~AnyDue

setCanvasId(id, name) ==
  /\ CanCall
  /\ calls' = calls + 1
  /\ canvasId' = id
  /\ canvasName' = IF name # Undefined THEN name ELSE canvasName
  /\ burst' = [burst EXCEPT !.clean = @ /\ id = canvasId,
                            !.fate = IF id = canvasId THEN @ ELSE Replaced(@)]
  /\ obs' = Observe("setCanvasId", 0, "void", FALSE, 0)
  /\ UNCHANGED <<now, createdAt, isLoading, onSaveError, currentSnapshot,
                 timeoutId, settleTimers, graceTimers, txns, store, committed, generated>>

setErrorHandler ==
  /\ CanCall
  /\ calls' = calls + 1
  /\ onSaveError' = TRUE
  /\ obs' = Observe("setErrorHandler", 0, "void", FALSE, 0)
  /\ UNCHANGED <<now, canvasId, canvasName, createdAt, isLoading,
                 currentSnapshot, timeoutId, settleTimers, graceTimers, txns,
                 store, committed, generated, burst>>

\* mutant: onStateChange without the isLoading test
onStateChange_noLoadingCheck(snapshot) ==
  /\ CanCall
  /\ calls' = calls + 1
  /\ IF canvasId # Null
       THEN /\ currentSnapshot' = snapshot
            /\ debounced
            /\ burst' = Scheduled(snapshot)
       ELSE UNCHANGED <<currentSnapshot, timeoutId, burst>>
  /\ obs' = Observe("onStateChange", 0, "void", FALSE, 0)
  /\ UNCHANGED <<now, canvasId, canvasName, createdAt, isLoading, onSaveError,
                 settleTimers, graceTimers, txns, store, committed, generated>>

\* mutant: onStateChange records a snapshot only when none is recorded
onStateChange_keepsFirst(snapshot) ==
  /\ CanCall
  /\ calls' = calls + 1
  /\ IF isLoading
       THEN UNCHANGED <<currentSnapshot, timeoutId, burst>>
       ELSE IF canvasId # Null
         THEN /\ currentSnapshot' =
                   IF currentSnapshot = Null THEN snapshot ELSE currentSnapshot
              /\ debounced
              /\ burst' = Scheduled(snapshot)
         ELSE UNCHANGED <<currentSnapshot, timeoutId, burst>>
  /\ obs' = Observe("onStateChange", 0, "void", FALSE, 0)
  /\ UNCHANGED <<now, canvasId, canvasName, createdAt, isLoading, onSaveError,
                 settleTimers, graceTimers, txns, store, committed, generated>>

onStateChange(snapshot) ==
  /\ CanCall
  /\ calls' = calls + 1
  /\ IF isLoading
       THEN UNCHANGED <<currentSnapshot, timeoutId, burst>>
       ELSE IF canvasId # Null
         THEN /\ currentSnapshot' = snapshot
              /\ debounced
              /\ burst' = Scheduled(snapshot)
         ELSE UNCHANGED <<currentSnapshot, timeoutId, burst>>
  /\ obs' = Observe("onStateChange", 0, "void", FALSE, 0)
  /\ UNCHANGED <<now, canvasId, canvasName, createdAt, isLoading, onSaveError,
                 settleTimers, graceTimers, txns, store, committed, generated>>

updateSnapshot(snapshot) ==
  /\ CanCall
  /\ calls' = calls + 1
  /\ currentSnapshot' = snapshot
  /\ IF ~isLoading /\ canvasId # Null
       THEN debounced /\ burst' = Scheduled(snapshot)
       ELSE /\ UNCHANGED timeoutId
            /\ burst' = [burst EXCEPT !.owner = canvasId,
                                      !.fate = Replaced(@)]
  /\ obs' = Observe("updateSnapshot", 0, "void", FALSE, 0)
  /\ UNCHANGED <<now, canvasId, canvasName, createdAt, isLoading, onSaveError,
                 settleTimers, graceTimers, txns, store, committed, generated>>

\* the debounce timer elapses: fn()
timerFires ==
  /\ Due(timeoutId)
  /\ timeoutId' = <<>>
  /\ save
  /\ burst' = [burst EXCEPT !.fired = @ + 1, !.at = now, !.writes = @ \o Issued,
                            !.fate = Written(@)]
  /\ obs' = Observe("timer", 1, "void", FALSE, 0)
  /\ UNCHANGED <<calls, now, mgr, settleTimers, graceTimers, store, committed, generated>>

\* mutant: forceSave waits the settle delay instead of the grace period
forceSave_settleDelay ==
  /\ CanCall
  /\ calls' = calls + 1
  /\ clearTimeout
  /\ save
  /\ graceTimers' = Append(graceTimers, [at |-> now, deadline |-> now + SETTLE_MS])
  /\ burst' = [burst EXCEPT !.flushed = TRUE, !.clean = FALSE,
                            !.fate = Written(@)]
  /\ obs' = Observe("forceSave", 1, "pending", FALSE, 0)
  /\ UNCHANGED <<now, mgr, settleTimers, store, committed, generated>>

\* forceSave() up to its await: debouncedSave.flush(), then the grace timer
forceSave ==
  /\ CanCall
  /\ calls' = calls + 1
  /\ clearTimeout
  /\ save
  /\ graceTimers' = Append(graceTimers, [at |-> now, deadline |-> now + GRACE_MS])
  /\ burst' = [burst EXCEPT !.flushed = TRUE, !.clean = FALSE,
                            !.fate = Written(@)]
  /\ obs' = Observe("forceSave", 1, "pending", FALSE, 0)
  /\ UNCHANGED <<now, mgr, settleTimers, store, committed, generated>>

\* the grace timer elapses: forceSave() returns to its caller
forceSaveReturns ==
  /\ GraceDue
  /\ graceTimers' = Tail(graceTimers)
  /\ obs' = Observe("forceSaveReturns", 0, "void", FALSE,
                    now - Head(graceTimers).at)
  /\ UNCHANGED <<calls, now, mgr, timeoutId, settleTimers, txns, store, committed,
                 generated, burst>>

\* loadCanvas(id) up to its await
loadCanvas(id) ==
  /\ CanCall
  /\ calls' = calls + 1
  /\ isLoading' = TRUE
  /\ txns' = Append(txns, GetTxn(id))
  /\ burst' = [burst EXCEPT !.clean = FALSE]
  /\ obs' = Observe("loadCanvas", 0, "pending", FALSE, 0)
  /\ UNCHANGED <<now, canvasId, canvasName, createdAt, onSaveError,
                 currentSnapshot, timeoutId, settleTimers, graceTimers, store, committed,
                 generated>>

\* a get may run once no readwrite transaction created before it is left
GetReady(i) ==
  /\ i \in Gets
  /\ \A j \in 1..(i - 1) : txns[j].kind = "get"

\* request.onsuccess of the get: loadCanvas resumes with data, returns it,
\* and its finally block starts the settle timer
getSucceeds(i) ==
  /\ GetReady(i)
  /\ LET data == Lookup(txns[i].id) IN
       /\ IF data # NoData
            THEN /\ canvasId' = data.id
                 /\ canvasName' = data.name
                 /\ createdAt' = data.createdAt
                 /\ currentSnapshot' = data.content
                 /\ burst' = [burst EXCEPT !.clean = FALSE, !.owner = data.id,
                                           !.fate = Replaced(@)]
            ELSE /\ UNCHANGED <<canvasId, canvasName, createdAt, currentSnapshot>>
                 /\ burst' = [burst EXCEPT !.clean = FALSE]
       /\ obs' = Observe("loadCanvasReturns", 0,
                         IF data # NoData THEN "data" ELSE "null", FALSE, 0)
  /\ settleTimers' = Append(settleTimers, now + SETTLE_MS)
  /\ txns' = RemoveAt(txns, i)
  /\ UNCHANGED <<calls, now, isLoading, onSaveError, timeoutId, graceTimers,
                 store, committed, generated>>

\* mutant: the lock is released after the try block, not in a finally
getFails_noRelease(i) ==
  /\ GetReady(i)
  /\ obs' = Observe("loadCanvasReturns", 0, "error", FALSE, 0)
  /\ txns' = RemoveAt(txns, i)
  /\ burst' = [burst EXCEPT !.clean = FALSE]
  /\ UNCHANGED <<calls, now, mgr, timeoutId, settleTimers, graceTimers, store, committed,
                 generated>>

\* mutant: a failed load resets the session
getFails_clearsSession(i) ==
  /\ GetReady(i)
  /\ canvasId' = Null
  /\ currentSnapshot' = Null
  /\ obs' = Observe("loadCanvasReturns", 0, "error", FALSE, 0)
  /\ settleTimers' = Append(settleTimers, now + SETTLE_MS)
  /\ txns' = RemoveAt(txns, i)
  /\ burst' = [burst EXCEPT !.clean = FALSE]
  /\ UNCHANGED <<calls, now, canvasName, createdAt, isLoading, onSaveError,
                 timeoutId, graceTimers, store, committed, generated>>

\* request.onerror of the get (or the open failed): loadCanvas rethrows
\* after its finally block has started the settle timer
getFails(i) ==
  /\ GetReady(i)
  /\ obs' = Observe("loadCanvasReturns", 0, "error", FALSE, 0)
  /\ settleTimers' = Append(settleTimers, now + SETTLE_MS)
  /\ txns' = RemoveAt(txns, i)
  /\ burst' = [burst EXCEPT !.clean = FALSE]
  /\ UNCHANGED <<calls, now, mgr, timeoutId, graceTimers, store, committed, generated>>

\* the settle timer elapses
settleFires ==
  /\ Due(settleTimers)
  /\ isLoading' = FALSE
  /\ settleTimers' = Tail(settleTimers)
  /\ obs' = Observe("settle", 0, "void", FALSE, 0)
  /\ UNCHANGED <<calls, now, canvasId, canvasName, createdAt, onSaveError,
                 currentSnapshot, timeoutId, graceTimers, txns, store, committed,
                 generated, burst>>

createNewCanvas(name) ==
  /\ CanCall
  /\ calls' = calls + 1
  /\ generated < MaxNew
  /\ canvasId' = UuidPool[generated + 1]
  /\ generated' = generated + 1
  /\ canvasName' = IF name # Undefined THEN name ELSE UNTITLED
  /\ createdAt' = now
  /\ currentSnapshot' = Null
  /\ burst' = [burst EXCEPT !.clean = FALSE, !.owner = Null,
                            !.fate = Replaced(@)]
  /\ obs' = Observe("createNewCanvas", 0, UuidPool[generated + 1], FALSE, 0)
  /\ UNCHANGED <<now, isLoading, onSaveError, timeoutId, settleTimers,
                 graceTimers, txns, store, committed>>

(* ---------------- IndexedDbStorageService.saveCanvas ---------------- *)
\* readwrite transactions on the one store run one at a time, in the order
\* they were created
PutAt(st) == txns # <<>> /\ Head(txns).kind = "put" /\ Head(txns).st = st

\* request.onsuccess of the put: resolve(); save() logs and ends
putSucceeds ==
  /\ PutAt("request")
  /\ txns' = <<[Head(txns) EXCEPT !.st = "resolved"]>> \o Tail(txns)
  /\ obs' = Observe("saveResolves", 0, "void", FALSE, 0)
  /\ UNCHANGED <<calls, now, mgr, timeoutId, settleTimers, graceTimers, store, committed,
                 generated, burst>>

\* mutant: a failed write is issued again
putFails_retries ==
  /\ PutAt("request")
  /\ txns' = Append(Tail(txns), PutTxn(Head(txns).rec))
  /\ obs' = Observe("saveRejects", 0, "void", onSaveError, 0)
  /\ UNCHANGED <<calls, now, mgr, timeoutId, settleTimers, graceTimers, store, committed,
                 generated, burst>>

\* request.onerror of the put (or the open failed): reject; save() catches
\* and calls the error handler when there is one
putFails ==
  /\ PutAt("request")
  /\ txns' = Tail(txns)
  /\ obs' = Observe("saveRejects", 0, "void", onSaveError, 0)
  /\ UNCHANGED <<calls, now, mgr, timeoutId, settleTimers, graceTimers, store, committed,
                 generated, burst>>

\* mutant: the transactions complete newest first
commit_newestFirst ==
  /\ PutAt("resolved")
  /\ LET last == Len(txns) IN
       IF txns[last].kind = "put"
         THEN /\ store' = Put(txns[last].rec)
              /\ committed' = Committed(txns[last].rec)
              /\ txns' = SubSeq(txns, 1, last - 1)
         ELSE /\ store' = Put(Head(txns).rec)
              /\ committed' = Committed(Head(txns).rec)
              /\ txns' = Tail(txns)
  /\ obs' = Observe("commit", 0, "void", FALSE, 0)
  /\ UNCHANGED <<calls, now, mgr, timeoutId, settleTimers, graceTimers,
                 generated, burst>>

\* the readwrite transaction completes
commit ==
  /\ PutAt("resolved")
  /\ store' = Put(Head(txns).rec)
  /\ committed' = Committed(Head(txns).rec)
  /\ txns' = Tail(txns)
  /\ obs' = Observe("commit", 0, "void", FALSE, 0)
  /\ UNCHANGED <<calls, now, mgr, timeoutId, settleTimers, graceTimers,
                 generated, burst>>

\* the readwrite transaction aborts after its request succeeded
abort ==
  /\ PutAt("resolved")
  /\ txns' = Tail(txns)
  /\ obs' = Observe("abort", 0, "void", FALSE, 0)
  /\ UNCHANGED <<calls, now, mgr, timeoutId, settleTimers, graceTimers, store, committed,
                 generated, burst>>

(* ---------------- time ---------------- *)
\* time passes by the smallest delay of the program
tick ==
  /\ ~AnyDue
  /\ now < MaxTime
  /\ now' = now + GRACE_MS
  /\ obs' = Observe("tick", 0, "void", FALSE, 0)
  /\ UNCHANGED <<calls, mgr, timeoutId, settleTimers, graceTimers, txns, store, committed,
                 generated, burst>>

\* time passes up to the next timer deadline
sleep ==
  /\ Deadlines # {}
  /\ ~AnyDue
  /\ now' = NextDeadline
  /\ obs' = Observe("tick", 0, "void", FALSE, 0)
  /\ UNCHANGED <<calls, mgr, timeoutId, settleTimers, graceTimers, txns, store, committed,
                 generated, burst>>

Next ==
  \/ \E id \in Ids, name \in Names \cup {Undefined} : setCanvasId(id, name)
  \/ setErrorHandler
  \/ \E s \in Snapshots : onStateChange(s)
  \/ \E s \in Snapshots : updateSnapshot(s)
  \/ timerFires
  \/ forceSave
  \/ forceSaveReturns
  \/ \E id \in Ids : loadCanvas(id)
  \/ \E i \in 1..Len(txns) : getSucceeds(i)
  \/ \E i \in 1..Len(txns) : getFails(i)
  \/ settleFires
  \/ \E name \in Names \cup {Undefined} : createNewCanvas(name)
  \/ putSucceeds
  \/ putFails
  \/ commit
  \/ abort
  \/ tick
  \/ sleep

Spec == Init /\ [][Next]_vars

\* the event loop runs every callback that is ready, the storage answers
\* every request, and time goes on
Fairness ==
  /\ WF_vars(timerFires)
  /\ WF_vars(forceSaveReturns)
  /\ WF_vars(settleFires)
  /\ WF_vars(\E i \in 1..Len(txns) : getSucceeds(i) \/ getFails(i))
  /\ WF_vars(putSucceeds \/ putFails)
  /\ WF_vars(commit \/ abort)
  /\ WF_vars(sleep)

FairSpec == Spec /\ Fairness

(* ---------------- the storage service called directly ---------------- *)
\* calls the application makes on the storage service
MaxOps == 3

\* the keys of the store in IndexedDB key order
KeyOrder == <<StoredId>> \o UuidPool
StoreIds == {KeyOrder[k] : k \in 1..3}
\* the ids the application passes to the service
CallIds == {KeyOrder[k] : k \in 1..2}
\* values of Date.now() the saved records carry, and those the stored ones do
SaveStamps == {100, 200}
Stamps == SaveStamps \cup {300}
\* the records the application saves: createdAt and updatedAt are Date.now()
Canvases ==
  {CanvasData(id, UNTITLED, "A", t, t) : id \in CallIds, t \in SaveStamps}
\* the stores the service may find: at most one record per key
Stores ==
  {s \in SUBSET {CanvasData(id, "N", "S", 0, t) : id \in StoreIds, t \in Stamps} :
     \A r, q \in s : r.id = q.id => r = q}

\* a readwrite transaction with one delete request
DeleteTxn(id) == [kind |-> "delete", id |-> id, rec |-> NoData, st |-> "request"]
\* a readonly transaction with one getAll request
ListTxn == [kind |-> "list", id |-> Null, rec |-> NoData, st |-> "request"]

\* what a call of the service returned, with the value it resolved to
Returned(op, result, data) ==
  [op |-> op, effect |-> 0, result |-> result, handled |-> FALSE, waited |-> 0,
   data |-> data]

\* store.delete(id)
Delete(id) == {r \in store : r.id # id}

\* store.getAll(): the records in key order
RECURSIVE GetAllFrom(_)
GetAllFrom(k) ==
  IF k > Len(KeyOrder) THEN <<>>
  ELSE (IF Lookup(KeyOrder[k]) # NoData THEN <<Lookup(KeyOrder[k])>> ELSE <<>>)
         \o GetAllFrom(k + 1)

GetAll == GetAllFrom(1)

\* c => ({id: c.id, name: c.name, createdAt: c.createdAt, updatedAt: c.updatedAt})
CanvasMetadata(c) ==
  [id |-> c.id, name |-> c.name, createdAt |-> c.createdAt,
   updatedAt |-> c.updatedAt]

\* mutant: the comparator of an ascending sort
compare_ascending(a, b) == a.updatedAt - b.updatedAt

\* (a, b) => b.updatedAt - a.updatedAt
compare(a, b) == b.updatedAt - a.updatedAt

\* Array.prototype.sort is stable: x goes behind every element it does not
\* have to precede
RECURSIVE Insert(_, _)
Insert(x, sorted) ==
  IF sorted = <<>> THEN <<x>>
  ELSE IF compare(x, Head(sorted)) < 0 THEN <<x>> \o sorted
  ELSE <<Head(sorted)>> \o Insert(x, Tail(sorted))

RECURSIVE Sort(_)
Sort(seq) ==
  IF seq = <<>> THEN <<>>
  ELSE Insert(seq[Len(seq)], Sort(SubSeq(seq, 1, Len(seq) - 1)))

\* canvases.map(...).sort(...)
metadata(canvases) ==
  Sort([k \in 1..Len(canvases) |-> CanvasMetadata(canvases[k])])

StoreInit ==
  /\ now = GRACE_MS
  /\ canvasId = Null
  /\ canvasName = UNTITLED
  /\ createdAt = now
  /\ isLoading = FALSE
  /\ onSaveError = FALSE
  /\ currentSnapshot = Null
  /\ timeoutId = <<>>
  /\ settleTimers = <<>>
  /\ graceTimers = <<>>
  /\ txns = <<>>
  /\ store \in Stores
  /\ committed = store
  /\ generated = 0
  /\ calls = 0
  /\ burst = NoBurst
  /\ obs = Returned("new", "void", NoData)

\* what no call of the service changes
idle == <<now, mgr, timeoutId, settleTimers, graceTimers, generated, burst>>

\* saveCanvas(canvas) up to the put request
saveCanvas(canvas) ==
  /\ calls < MaxOps
  /\ calls' = calls + 1
  /\ txns' = Append(txns, PutTxn(canvas))
  /\ obs' = Returned("saveCanvas", "pending", NoData)
  /\ UNCHANGED <<idle, store, committed>>

\* IndexedDbStorageService.loadCanvas(id) up to the get request
storageLoadCanvas(id) ==
  /\ calls < MaxOps
  /\ calls' = calls + 1
  /\ txns' = Append(txns, GetTxn(id))
  /\ obs' = Returned("loadCanvas", "pending", NoData)
  /\ UNCHANGED <<idle, store, committed>>

\* deleteCanvas(id) up to the delete request
deleteCanvas(id) ==
  /\ calls < MaxOps
  /\ calls' = calls + 1
  /\ txns' = Append(txns, DeleteTxn(id))
  /\ obs' = Returned("deleteCanvas", "pending", NoData)
  /\ UNCHANGED <<idle, store, committed>>

\* listCanvases() up to the getAll request
listCanvases ==
  /\ calls < MaxOps
  /\ calls' = calls + 1
  /\ txns' = Append(txns, ListTxn)
  /\ obs' = Returned("listCanvases", "pending", NoData)
  /\ UNCHANGED <<idle, store, committed>>

\* a readonly transaction may run once no readwrite transaction created
\* before it is left
ReadReady(i, kind) ==
  /\ i \in 1..Len(txns)
  /\ txns[i].kind = kind
  /\ \A j \in 1..(i - 1) : txns[j].kind \in {"get", "list"}

\* request.onsuccess of the get: resolve(request.result || null)
loadResolves(i) ==
  /\ ReadReady(i, "get")
  /\ obs' = Returned("loadResolves",
                     IF Lookup(txns[i].id) # NoData THEN "data" ELSE "null",
                     Lookup(txns[i].id))
  /\ txns' = RemoveAt(txns, i)
  /\ UNCHANGED <<idle, calls, store, committed>>

\* request.onerror of the get: reject(request.error)
loadRejects(i) ==
  /\ ReadReady(i, "get")
  /\ obs' = Returned("loadRejects", "error", NoData)
  /\ txns' = RemoveAt(txns, i)
  /\ UNCHANGED <<idle, calls, store, committed>>

\* request.onsuccess of the getAll: resolve(metadata)
listResolves(i) ==
  /\ ReadReady(i, "list")
  /\ obs' = Returned("listResolves", "data", metadata(GetAll))
  /\ txns' = RemoveAt(txns, i)
  /\ UNCHANGED <<idle, calls, store, committed>>

\* request.onerror of the getAll: reject(request.error)
listRejects(i) ==
  /\ ReadReady(i, "list")
  /\ obs' = Returned("listRejects", "error", NoData)
  /\ txns' = RemoveAt(txns, i)
  /\ UNCHANGED <<idle, calls, store, committed>>

DeleteAt(st) == txns # <<>> /\ Head(txns).kind = "delete" /\ Head(txns).st = st

\* request.onsuccess of the delete: resolve()
deleteSucceeds ==
  /\ DeleteAt("request")
  /\ txns' = <<[Head(txns) EXCEPT !.st = "resolved"]>> \o Tail(txns)
  /\ obs' = Returned("deleteResolves", "void", NoData)
  /\ UNCHANGED <<idle, calls, store, committed>>

\* request.onerror of the delete: reject(request.error)
deleteFails ==
  /\ DeleteAt("request")
  /\ txns' = Tail(txns)
  /\ obs' = Returned("deleteRejects", "error", NoData)
  /\ UNCHANGED <<idle, calls, store, committed>>

\* the readwrite transaction of the delete completes
deleteCommits ==
  /\ DeleteAt("resolved")
  /\ store' = Delete(Head(txns).id)
  /\ committed' = {r \in committed : r.id # Head(txns).id}
  /\ txns' = Tail(txns)
  /\ obs' = Returned("deleteCommits", "void", NoData)
  /\ UNCHANGED <<idle, calls>>

\* the readwrite transaction of the delete aborts
deleteAborts ==
  /\ DeleteAt("resolved")
  /\ txns' = Tail(txns)
  /\ obs' = Returned("deleteAborts", "void", NoData)
  /\ UNCHANGED <<idle, calls, store, committed>>

StoreNext ==
  \/ \E canvas \in Canvases : saveCanvas(canvas)
  \/ \E id \in CallIds : storageLoadCanvas(id)
  \/ \E id \in CallIds : deleteCanvas(id)
  \/ listCanvases
  \/ \E i \in 1..Len(txns) : loadResolves(i)
  \/ \E i \in 1..Len(txns) : loadRejects(i)
  \/ \E i \in 1..Len(txns) : listResolves(i)
  \/ \E i \in 1..Len(txns) : listRejects(i)
  \/ putSucceeds
  \/ putFails
  \/ commit
  \/ abort
  \/ deleteSucceeds
  \/ deleteFails
  \/ deleteCommits
  \/ deleteAborts

StoreSpec == StoreInit /\ [][StoreNext]_vars

(* ======================= claims ======================= *)

\* a step that issues a storage write
WriteIssued == Len(txns') > Len(txns) /\ txns'[Len(txns')].kind = "put"

\* C1: every storage write is issued in a state where canvasId and
\* currentSnapshot are set and isLoading is false; when the debounced effect
\* runs in any other state it issues no write and reports no error.
C1_WritesOnlyWhenGuarded ==
  [][ /\ WriteIssued =>
           (canvasId # Null /\ currentSnapshot # Null /\ ~isLoading)
      /\ (obs'.effect > 0
             /\ ~(canvasId # Null /\ currentSnapshot # Null /\ ~isLoading)) =>
           (txns' = txns /\ ~obs'.handled /\ obs'.result # "error") ]_vars

\* a write issued by the debounce timer
C1_Witness ==
  /\ obs.op = "timer"
  /\ burst.writes # <<>>
  /\ txns # <<>> /\ txns[Len(txns)].kind = "put"

\* C2: while a loadCanvas call is unresolved, or resolved less than the
\* settle delay ago, isLoading is true.
C2_LoadingBracketsEveryLoad ==
  (Gets # {} \/ \E i \in 1..Len(settleTimers) : settleTimers[i] > now)
    => isLoading

\* C3: an onStateChange call made while isLoading is true leaves
\* currentSnapshot and the debounce timer unchanged and issues no write.
C3_IgnoredWhileLoading ==
  [][ (obs'.op = "onStateChange" /\ isLoading) =>
        UNCHANGED <<currentSnapshot, timeoutId, txns>> ]_vars

\* an onStateChange call was dropped with a snapshot and a timer pending
C3_Witness ==
  /\ obs.op = "onStateChange"
  /\ isLoading
  /\ currentSnapshot # Null
  /\ Pending(timeoutId)

\* C4: in a sequence of debouncedSave() calls, each made while the timer of
\* the previous one is pending and with no flush since, the timer is set to
\* one window after the last call, and once it is gone fn has been invoked
\* exactly once, one window after the last call.
C4_TrailingEdgeOnce ==
  (burst.n > 0 /\ ~burst.flushed) =>
    IF Pending(timeoutId)
      THEN /\ burst.fired = 0
           /\ timeoutId[1] = burst.last + DEBOUNCE_MS
           /\ now <= timeoutId[1]
      ELSE /\ burst.fired = 1
           /\ burst.at = burst.last + DEBOUNCE_MS

\* a sequence of calls at different times has fired
C4_Witness ==
  /\ burst.n >= 2
  /\ burst.last > burst.first
  /\ ~burst.flushed
  /\ burst.fired = 1

\* C5: flush invokes fn once in the flush itself, pending timer or not, and
\* leaves no timer pending; the timer invokes fn only for a sequence of
\* calls that no flush has ended.
C5_FlushInvokesAndCancels ==
  /\ obs.op = "forceSave" => (obs.effect = 1 /\ ~Pending(timeoutId))
  /\ obs.op = "timer" => ~burst.flushed

\* a flush with no debouncedSave() call ever made
C5_Witness ==
  /\ obs.op = "forceSave"
  /\ obs.effect = 1
  /\ burst.n = 0

\* C6: whenever isLoading is true it is false again later.
C6_LoadingReleased == isLoading ~> ~isLoading

\* the last settle timer has released the lock
C6_Witness ==
  /\ obs.op = "settle"
  /\ ~isLoading
  /\ Gets = {}
  /\ settleTimers = <<>>

\* C7: a loadCanvas call whose read fails throws to its caller; the call,
\* and its return with an error or with null, leave canvasId, canvasName,
\* createdAt and currentSnapshot unchanged; null is returned for an id that
\* is not stored.
C7_LoadFailureKeepsSession ==
  [][ /\ (\E i \in 1..Len(txns) : getFails(i)) => obs'.result = "error"
      /\ (obs'.op = "loadCanvas"
            \/ (obs'.op = "loadCanvasReturns" /\ obs'.result \in {"error", "null"}))
           => UNCHANGED <<canvasId, canvasName, createdAt, currentSnapshot>>
      /\ (obs'.op = "loadCanvasReturns" /\ obs'.result = "null")
           => \E i \in Gets : Lookup(txns[i].id) = NoData ]_vars

\* a load has failed with a session active
C7_Witness ==
  /\ obs.op = "loadCanvasReturns"
  /\ obs.result = "error"
  /\ canvasId # Null
  /\ currentSnapshot # Null

C9_BurstWritesLastSnapshot ==
  (burst.n > 0 /\ burst.clean) =>
    IF Pending(timeoutId)
      THEN burst.fired = 0 /\ burst.writes = <<>>
      ELSE /\ burst.fired = 1
           /\ burst.at = burst.last + DEBOUNCE_MS
           /\ Len(burst.writes) = 1
           /\ burst.writes[1].content = burst.snap
           /\ burst.writes[1].id = canvasId
           /\ burst.writes[1].updatedAt = burst.at

\* a burst of calls at different times was written and committed
C9_Witness ==
  /\ burst.n >= 2
  /\ burst.last > burst.first
  /\ burst.clean
  /\ burst.fired = 1
  /\ Len(burst.writes) = 1
  /\ burst.writes[1] \in store

C11_UpdatedAtMonotone ==
  [][ \A r \in store, q \in store' :
        q.id = r.id => q.updatedAt >= r.updatedAt ]_vars

\* the first of two writes of the manager, in flight at once for one id, has
\* committed and the later one is still to come
C11_Witness ==
  /\ obs.op = "commit"
  /\ \E r \in store, i \in 1..Len(txns) :
        /\ r.updatedAt >= GRACE_MS
        /\ txns[i].kind = "put"
        /\ txns[i].id = r.id
        /\ txns[i].rec.updatedAt > r.updatedAt

\* C12: every record the manager writes for an id carries the createdAt of
\* the record stored under that id.
C12_CreatedAtFixed ==
  \A i \in 1..Len(txns) :
    txns[i].kind = "put" =>
      \A r \in store : r.id = txns[i].id => r.createdAt = txns[i].rec.createdAt

\* C13: createNewCanvas makes canvasId an id the generator has not returned
\* before and no record is stored under, sets createdAt to the current time,
\* clears currentSnapshot and returns the id; no write is issued for an id
\* createNewCanvas returned before an onStateChange call is accepted with
\* that id active.
C13_NewCanvasStartsEmpty ==
  [][ /\ obs'.op = "createNewCanvas" =>
           /\ canvasId' \notin Ids
           /\ Lookup(canvasId') = NoData
           /\ obs'.result = canvasId'
           /\ createdAt' = now
           /\ currentSnapshot' = Null
      /\ (WriteIssued /\ txns'[Len(txns')].id # StoredId) =>
           txns'[Len(txns')].id \in burst.accepted ]_vars

\* C14: a save has resolved only when its transaction has committed: no
\* transaction is left to commit or abort once its save has resolved, and no
\* transaction aborts after its save has resolved.
C14_ResolvedAfterCommit ==
  /\ \A i \in 1..Len(txns) : txns[i].st # "resolved"
  /\ obs.op # "abort"

\* the record of the last write that committed for id and was not deleted
\* since
LastCommitted(id) ==
  IF \E r \in committed : r.id = id
    THEN CHOOSE r \in committed : r.id = id
    ELSE NoData

\* C15: a load whose request succeeds returns the content and the updatedAt
\* of the write that committed last for its id, and the not-found result,
\* not an error, when no write for the id has committed or the id was
\* deleted since.
C15_LoadReturnsLastCommitted ==
  [][ \A i \in 1..Len(txns) : loadResolves(i) =>
        LET last == LastCommitted(txns[i].id) IN
          IF last # NoData
            THEN /\ obs'.result = "data"
                 /\ obs'.data.id = txns[i].id
                 /\ obs'.data.content = last.content
                 /\ obs'.data.updatedAt = last.updatedAt
            ELSE obs'.result = "null" ]_vars

\* after three calls a load has returned what a save wrote
C15_Witness ==
  /\ obs.op = "loadResolves"
  /\ obs.result = "data"
  /\ obs.data.content = "A"
  /\ calls = 3

\* C16 as stated: listCanvases returns the id, name, createdAt and updatedAt
\* of every stored record once, without its content, each entry with a
\* greater updatedAt than the next.
C16_ListStrictlyDescending ==
  obs.op = "listResolves" =>
    /\ Len(obs.data) = Cardinality(store)
    /\ \A r \in store : \E k \in 1..Len(obs.data) :
         /\ DOMAIN obs.data[k] = {"id", "name", "createdAt", "updatedAt"}
         /\ obs.data[k].id = r.id
         /\ obs.data[k].name = r.name
         /\ obs.data[k].createdAt = r.createdAt
         /\ obs.data[k].updatedAt = r.updatedAt
    /\ \A k \in 1..(Len(obs.data) - 1) :
         obs.data[k].updatedAt > obs.data[k + 1].updatedAt

\* C16: listCanvases returns the id, name, createdAt and updatedAt of every
\* stored record once, without its content, no entry with a smaller
\* updatedAt than the next.
C16_ListDescending ==
  obs.op = "listResolves" =>
    /\ Len(obs.data) = Cardinality(store)
    /\ \A r \in store : \E k \in 1..Len(obs.data) :
         /\ DOMAIN obs.data[k] = {"id", "name", "createdAt", "updatedAt"}
         /\ obs.data[k].id = r.id
         /\ obs.data[k].name = r.name
         /\ obs.data[k].createdAt = r.createdAt
         /\ obs.data[k].updatedAt = r.updatedAt
    /\ \A k \in 1..(Len(obs.data) - 1) :
         obs.data[k].updatedAt >= obs.data[k + 1].updatedAt

\* three records were listed, two of them with the same updatedAt and one
\* with a smaller one that is stored under a smaller key
C16_Witness ==
  /\ obs.op = "listResolves"
  /\ Len(obs.data) = 3
  /\ obs.data[1].updatedAt = obs.data[2].updatedAt
  /\ obs.data[2].updatedAt > obs.data[3].updatedAt
  /\ obs.data[3].id = StoredId

\* C17: two writes of the manager for one id can be in flight at once, and
\* whenever the store changes, the record of one write in flight is stored
\* in full under its id and every other record is left as it was.
C17_WholeRecordStored ==
  [][ store' # store =>
        \E i \in 1..Len(txns) :
          /\ txns[i].kind = "put"
          /\ txns[i].rec \in store'
          /\ \A r \in store' : r = txns[i].rec \/ (r \in store /\ r.id # txns[i].id)
          /\ \A r \in store : r.id # txns[i].id => r \in store' ]_vars

\* the write of the debounce timer is still with the storage when a flush
\* has issued a second write for the same id
C17_Witness ==
  /\ obs.op = "forceSave"
  /\ \E i \in 1..Len(txns) :
        /\ i < Len(txns)
        /\ txns[i].kind = "put"
        /\ txns[i].st = "request"
        /\ burst.writes = <<txns[i].rec>>
        /\ txns[Len(txns)].kind = "put"
        /\ txns[Len(txns)].st = "request"
        /\ txns[Len(txns)].id = txns[i].id

\* C18: the snapshot of an accepted onStateChange call is in the end passed
\* to a write for its id, unless it is replaced first: by a later accepted
\* snapshot, by the hydration of a load, or, with its session, by
\* createNewCanvas or a change of canvasId.
C18_AcceptedSnapshotWritten ==
  (burst.fate = "pending") ~> (burst.fate # "pending")

\* C19: no write carries under one id a snapshot that was recorded, by
\* onStateChange, updateSnapshot or the hydration of a load, while another id
\* was the active id.
C19_NoCrossDocumentWrite ==
  [][ WriteIssued => burst.owner \in {Null, txns'[Len(txns')].id} ]_vars

\* C20: while isLoading is true, currentSnapshot is replaced by another
\* snapshot only in the hydration step of a successful load.
C20_SnapshotFrozenWhileLoading ==
  [][ (isLoading /\ currentSnapshot' # currentSnapshot /\ currentSnapshot' # Null)
        => (obs'.op = "loadCanvasReturns" /\ obs'.result = "data") ]_vars

====
